---- MODULE Spec2Model ----
(***************************************************************************)
(* BrainForge user service: the stats/scoring engine of                    *)
(* services/user_service/user_main.py over the SQLite tables of            *)
(* services/user_service/database.py.                                      *)
(*                                                                         *)
(* The arithmetic of the service is Python arithmetic: `//` floors, int()  *)
(* truncates toward zero, and every expression with a float literal is     *)
(* evaluated in IEEE-754 binary64 with round-half-to-even.  TLC's integers *)
(* are 32 bits wide, so a double is modelled as sign, exponent and a       *)
(* significand written as a sequence of bits, least significant first.     *)
(***************************************************************************)
EXTENDS Integers, Sequences, FiniteSets, TLC

(***************************************************************************)
(* Natural numbers of any width, as sequences of limbs of LimbBits bits    *)
(* (index 1 = the least significant limb); the product of two limbs fits   *)
(* a 32-bit integer.                                                       *)
(***************************************************************************)
LimbBits == 15

Max0(n) == IF n < 0 THEN 0 ELSE n

Pow2(k) == 2 ^ k

Base == Pow2(LimbBits)

RECURSIVE LNorm(_)
LNorm(a) ==
  IF a = <<>> \/ a[Len(a)] # 0 THEN a ELSE LNorm(SubSeq(a, 1, Len(a) - 1))

RECURSIVE LFromNat(_)
LFromNat(n) == IF n = 0 THEN <<>> ELSE <<n % Base>> \o LFromNat(n \div Base)

RECURSIVE LToNat(_)
LToNat(a) == IF a = <<>> THEN 0 ELSE a[1] + Base * LToNat(Tail(a))

LRest(a) == IF a = <<>> THEN a ELSE Tail(a)

LLow(a) == IF a = <<>> THEN 0 ELSE a[1]

RECURSIVE LAddC(_, _, _)
LAddC(a, b, c) ==
  IF a = <<>> /\ b = <<>>
  THEN (IF c = 0 THEN <<>> ELSE <<c>>)
  ELSE LET s == LLow(a) + LLow(b) + c
       IN  <<s % Base>> \o LAddC(LRest(a), LRest(b), s \div Base)

LAdd(a, b) == LNorm(LAddC(a, b, 0))

\* a - b for a >= b
RECURSIVE LSubB(_, _, _)
LSubB(a, b, br) ==
  IF a = <<>>
  THEN <<>>
  ELSE LET d == a[1] - LLow(b) - br
       IN  <<(d + Base) % Base>>
             \o LSubB(Tail(a), LRest(b), IF d < 0 THEN 1 ELSE 0)

LSub(a, b) == LNorm(LSubB(a, b, 0))

\* a <= b, both normalised: the longer is the larger, else the top limbs decide
RECURSIVE LLessEq(_, _)
LLessEq(a, b) ==
  IF Len(a) # Len(b) THEN Len(a) < Len(b)
  ELSE IF a = <<>> THEN TRUE
  ELSE IF a[Len(a)] # b[Len(b)] THEN a[Len(a)] < b[Len(b)]
  ELSE LLessEq(LNorm(SubSeq(a, 1, Len(a) - 1)),
               LNorm(SubSeq(b, 1, Len(b) - 1)))

\* a * k + c for a limb k
RECURSIVE LMulLimb(_, _, _)
LMulLimb(a, k, c) ==
  IF a = <<>>
  THEN (IF c = 0 THEN <<>> ELSE <<c>>)
  ELSE LET t == a[1] * k + c
       IN  <<t % Base>> \o LMulLimb(Tail(a), k, t \div Base)

RECURSIVE LMulRec(_, _)
LMulRec(a, b) ==
  IF b = <<>>
  THEN <<>>
  ELSE LAddC(LMulLimb(a, b[1], 0), <<0>> \o LMulRec(a, Tail(b)), 0)

LMul(a, b) == LNorm(LMulRec(a, b))

\* the quotient limbs (most significant first in hi) of a by a limb q
RECURSIVE LDivLimb(_, _, _)
LDivLimb(a, q, rem) ==
  IF a = <<>>
  THEN [quot |-> <<>>, rem |-> rem]
  ELSE LET cur  == rem * Base + a[Len(a)]
           rest == LDivLimb(SubSeq(a, 1, Len(a) - 1), q, cur % q)
       IN  [quot |-> rest.quot \o <<cur \div q>>, rem |-> rest.rem]

\* the number of significant bits
LBitLen(a) ==
  IF a = <<>> THEN 0
  ELSE LimbBits * (Len(a) - 1)
         + (CHOOSE k \in 1..LimbBits :
              Pow2(k - 1) <= a[Len(a)] /\ a[Len(a)] < Pow2(k))

\* bit i (from 0)
LBit(a, i) ==
  IF i \div LimbBits + 1 > Len(a) THEN 0
  ELSE (a[i \div LimbBits + 1] \div Pow2(i % LimbBits)) % 2

\* a \div 2^d
LShiftRight(a, d) ==
  LET q == d \div LimbBits
      r == d % LimbBits
      n == Len(a)
  IN  LNorm([i \in 1..Max0(n - q) |->
               (a[i + q] \div Pow2(r))
               + (IF i + q + 1 <= n
                  THEN (a[i + q + 1] % Pow2(r)) * Pow2(LimbBits - r)
                  ELSE 0)])

\* a * 2^d
LShiftLeft(a, d) ==
  LET q == d \div LimbBits
      r == d % LimbBits
      n == Len(a)
  IN  LNorm([i \in 1..(n + q + 1) |->
               (IF 1 <= i - q /\ i - q <= n
                THEN (a[i - q] % Pow2(LimbBits - r)) * Pow2(r)
                ELSE 0)
               + (IF 1 <= i - q - 1 /\ i - q - 1 <= n
                  THEN a[i - q - 1] \div Pow2(LimbBits - r)
                  ELSE 0)])

(***************************************************************************)
(* binary64 values: sg * m * 2^e, m of at most MantBits significant bits   *)
(* (one more only for an exact power of two after a carry).  The model's   *)
(* numbers stay far from the subnormal and overflow ranges.                *)
(***************************************************************************)
MantBits == 53

FracLen == 75

\* round-half-to-even of m * 2^e to MantBits significant bits
FRound(sg, m, e) ==
  LET n == LNorm(m)
      d == LBitLen(n) - MantBits
  IN  IF d <= 0
      THEN [sg |-> sg, m |-> n, e |-> e]
      ELSE LET kept   == LShiftRight(n, d)
               guard  == LBit(n, d - 1)
               sticky == \E i \in 0..(d - 2) : LBit(n, i) = 1
               up     == guard = 1 /\ (sticky \/ LBit(kept, 0) = 1)
           IN  [sg |-> sg,
                m  |-> IF up THEN LAdd(kept, <<1>>) ELSE kept,
                e  |-> e + d]

FFromInt(n) ==
  [sg |-> IF n < 0 THEN -1 ELSE 1,
   m  |-> LFromNat(IF n < 0 THEN -n ELSE n),
   e  |-> 0]

\* the double nearest to p / q (0 < q < Base): a true division of two exact
\* values, and the value of a decimal literal such as 0.7 = 7/10
FDivInt(p, q) ==
  LET a  == IF p < 0 THEN -p ELSE p
      dv == LDivLimb(LShiftLeft(LFromNat(a), FracLen), q, 0)
      st == IF dv.rem = 0 THEN 0 ELSE 1
  IN  FRound(IF p < 0 THEN -1 ELSE 1,
             LAdd(LShiftLeft(LNorm(dv.quot), 1), LFromNat(st)),
             -(FracLen + 1))

FMul(x, y) == FRound(x.sg * y.sg, LMul(x.m, y.m), x.e + y.e)

FAdd(x, y) ==
  LET e  == IF x.e < y.e THEN x.e ELSE y.e
      mx == LShiftLeft(x.m, x.e - e)
      my == LShiftLeft(y.m, y.e - e)
  IN  IF x.sg = y.sg
      THEN FRound(x.sg, LAdd(mx, my), e)
      ELSE IF LLessEq(my, mx)
           THEN FRound(x.sg, LSub(mx, my), e)
           ELSE FRound(y.sg, LSub(my, mx), e)

\* int(x): truncation toward zero
FTrunc(x) ==
  IF x.e >= 0
  THEN x.sg * LToNat(LShiftLeft(x.m, x.e))
  ELSE x.sg * LToNat(LShiftRight(x.m, -x.e))

(***************************************************************************)
(* The pure functions of the stats engine.                                 *)
(***************************************************************************)
Max(a, b) == IF a >= b THEN a ELSE b

\* the accuracy of a request body: an integral float, or one that int()
\* cannot convert (nan, inf)
Float(v) == [nan |-> FALSE, v |-> v]

NaN == [nan |-> TRUE, v |-> 0]

\* multipliers.get(difficulty, 1.0), as (numerator, 2): 1.0, 1.5, 2.0, 3.0
Multiplier(difficulty) ==
  CASE difficulty = "easy"   -> FDivInt(2, 2)
    [] difficulty = "medium" -> FDivInt(3, 2)
    [] difficulty = "hard"   -> FDivInt(4, 2)
    [] difficulty = "expert" -> FDivInt(6, 2)
    [] OTHER                 -> FDivInt(2, 2)

\* whether calculate_sparks raises instead of returning
SparksRaises(score, difficulty, accuracy) == accuracy.nan

\* mutant of calculate_sparks: the last max(sparks, 10) forgotten
calculate_sparks_unfloored(score, difficulty, accuracy) ==
  FTrunc(FMul(FMul(FFromInt(Max(score \div 10, 10)), Multiplier(difficulty)),
              FAdd(FFromInt(1), FDivInt(accuracy.v, 200))))

\* calculate_sparks(score, difficulty, accuracy) where it returns
calculate_sparks(score, difficulty, accuracy) ==
  LET base_sparks    == Max(score \div 10, 10)
      multiplier     == Multiplier(difficulty)
      accuracy_bonus == FAdd(FFromInt(1), FDivInt(accuracy.v, 200))
      sparks         == FTrunc(FMul(FMul(FFromInt(base_sparks), multiplier),
                                    accuracy_bonus))
  IN  Max(sparks, 10)

\* the while loop of calculate_brain_level, from (level, required, increment)
RECURSIVE BrainLevelLoop(_, _, _, _)
BrainLevelLoop(sparks, level, required, increment) ==
  IF sparks >= required
  THEN BrainLevelLoop(sparks, level + 1, required + increment, increment + 50)
  ELSE level - 1

calculate_brain_level(sparks) == BrainLevelLoop(sparks, 1, 0, 100)

\* int((stats.mind_rating * 0.7) + (score_data.score * 0.3))
NewMindRating(mind_rating, score) ==
  FTrunc(FAdd(FMul(FFromInt(mind_rating), FDivInt(7, 10)),
              FMul(FFromInt(score), FDivInt(3, 10))))

(***************************************************************************)
(* Bounds of the model and the inputs the requests are drawn from.         *)
(***************************************************************************)
MaxDay == 3

MaxScores == 3

MaxLimit == 2

\* the rowids table users hands out, and the processes serving the app
UserIds == {1, 2}

Workers == {1, 2}

Limits == 1..MaxLimit

\* no row (a query that returns None)
NoRow == [absent |-> TRUE]

None == -1

\* GameScoreCreate bodies: difficulty, score, time_taken, accuracy, best_streak
Payloads ==
  << [difficulty |-> "hard", score |-> 500, time_taken |-> 30,
      accuracy |-> Float(90), best_streak |-> None],
     [difficulty |-> "easy", score |-> 57, time_taken |-> 45,
      accuracy |-> Float(50), best_streak |-> 3],
     [difficulty |-> "legendary", score |-> 57, time_taken |-> 10,
      accuracy |-> NaN, best_streak |-> None] >>

PayloadIds == DOMAIN Payloads

\* mind_rating stays between 0 and the largest score submitted
Ratings == 0..(CHOOSE m \in {Payloads[p].score : p \in PayloadIds} :
                \A p \in PayloadIds : Payloads[p].score <= m)

\* calculate_sparks and the mind-rating expression on the model's inputs,
\* evaluated once
SparksOf ==
  [p \in PayloadIds |->
     IF SparksRaises(Payloads[p].score, Payloads[p].difficulty,
                     Payloads[p].accuracy)
     THEN None
     ELSE calculate_sparks(Payloads[p].score, Payloads[p].difficulty,
                           Payloads[p].accuracy)]

RatingOf ==
  [r \in Ratings, p \in PayloadIds |->
     NewMindRating(r, Payloads[p].score)]

(***************************************************************************)
(* State: the three tables, the clock, and the request each worker (an     *)
(* event loop with its own Session per request) is serving.                *)
(***************************************************************************)
VARIABLES
  users,    \* ids of the rows of table users
  stats,    \* user_id -> row of user_stats, or NoRow
  scores,   \* user_id -> rows of game_scores of that user, oldest first
  now,      \* the UTC date, as a day number
  req,      \* worker -> the request it is serving
  acked,    \* user_id -> what the submissions answered 200 add up to
  arg,      \* input of a pure-function call
  out       \* its result

dbVars == <<users, stats, scores>>

fnVars == <<arg, out>>

vars == <<users, stats, scores, now, req, acked, arg, out>>

\* no submission answered yet
NoneAcked == [games |-> 0, sparks |-> 0, time |-> 0]

\* Column defaults of UserStats
NewStats ==
  [sparks |-> 0, brain_level |-> 1, synapse_streak |-> 0,
   best_synapse_streak |-> 0, mind_rating |-> 0, total_games_played |-> 0,
   total_time_trained |-> 0, last_activity_date |-> None]

StatsColumns == DOMAIN NewStats

IdleReq ==
  [pc |-> "idle", op |-> "", user |-> 0, p |-> 0, earned |-> 0,
   pending |-> FALSE, orig |-> NoRow, cur |-> NoRow, today |-> None,
   status |-> 0, body |-> <<>>, limit |-> 0, nrows |-> 0, pre |-> NoRow]

Init ==
  /\ users = {}
  /\ stats = [u \in UserIds |-> NoRow]
  /\ scores = [u \in UserIds |-> <<>>]
  /\ now = 0
  /\ req = [w \in Workers |-> IdleReq]
  /\ acked = [u \in UserIds |-> NoneAcked]
  /\ arg = 0
  /\ out = <<>>

\* datetime.utcnow() moves on, also while a request is being served
Tick(lastDay) ==
  /\ now < lastDay
  /\ now' = now + 1
  /\ UNCHANGED <<users, stats, scores, req, acked, arg, out>>

\* the response of worker w's request; its Session is closed
Respond(w, code) ==
  [IdleReq EXCEPT !.pc = "done", !.status = code, !.op = req[w].op,
                  !.user = req[w].user, !.p = req[w].p, !.pre = req[w].pre,
                  !.today = req[w].today]

\* what the stored rows of a user show (the defaults if there is no row yet)
Persisted(u) ==
  [games  |-> IF stats[u] = NoRow THEN 0 ELSE stats[u].total_games_played,
   sparks |-> IF stats[u] = NoRow THEN 0 ELSE stats[u].sparks,
   rating |-> IF stats[u] = NoRow THEN 0 ELSE stats[u].mind_rating,
   best   |-> IF stats[u] = NoRow THEN 0 ELSE stats[u].best_synapse_streak,
   streak |-> IF stats[u] = NoRow THEN 0 ELSE stats[u].synapse_streak,
   last   |-> IF stats[u] = NoRow THEN None ELSE stats[u].last_activity_date,
   rows   |-> Len(scores[u])]

\* sqlite gives a new row the largest rowid in use plus one
NextUserId == IF users = {} THEN 1
              ELSE (CHOOSE m \in users : \A x \in users : x <= m) + 1

\* register_user, with a username and email not yet in use
register_user(w) ==
  /\ req[w].pc = "idle"
  /\ NextUserId \in UserIds
  /\ users' = users \cup {NextUserId}
  /\ UNCHANGED <<stats, scores, now, req, acked, arg, out>>

InFlightSubmits == Cardinality({w \in Workers : req[w].op = "submit"})

RECURSIVE SumLen(_, _)
SumLen(f, S) ==
  IF S = {} THEN 0
  ELSE LET x == CHOOSE y \in S : TRUE IN Len(f[x]) + SumLen(f, S \ {x})

\* a request with a bearer token of user u (POST /games/score, GET /stats,
\* DELETE /profile) is taken up: get_current_user answers 401 unless the
\* token's user is a row of users, and the handler is entered
get_current_user(w, op, u, p, cap) ==
  /\ req[w].pc = "idle"
  /\ op = "submit" => SumLen(scores, UserIds) + InFlightSubmits < cap
  /\ req' = [req EXCEPT ![w] =
               IF u \in users
               THEN [IdleReq EXCEPT !.pc = "handler", !.op = op, !.user = u,
                                    !.p = p, !.pre = Persisted(u)]
               ELSE [IdleReq EXCEPT !.pc = "done", !.op = op, !.user = u,
                                    !.status = 401]]
  /\ UNCHANGED <<users, stats, scores, now, acked, arg, out>>

ReceiveSubmit(w, cap) ==
  \E u \in UserIds, p \in PayloadIds :
    get_current_user(w, "submit", u, p, cap)

ReceiveGetStats(w) == \E u \in UserIds : get_current_user(w, "stats", u, 0, 0)

ReceiveDelete(w) == \E u \in UserIds : get_current_user(w, "delete", u, 0, 0)

\* the except branch of submit_game_score (db.rollback(), 500); for the
\* other handlers the exception leaves the handler and get_db closes the
\* Session: either way what the Session had not committed is dropped
Fail(w) == Respond(w, 500)

\* submit_game_score up to db.add(game_score): calculate_sparks, which
\* raises on a nan accuracy, and the GameScore pending in the Session
submit_add_score(w) ==
  /\ req[w].pc = "handler"
  /\ req[w].op = "submit"
  /\ IF SparksOf[req[w].p] = None
     THEN /\ req' = [req EXCEPT ![w] = Fail(w)]
     ELSE /\ req' = [req EXCEPT ![w] = [req[w] EXCEPT
                       !.pc = "query", !.earned = SparksOf[req[w].p],
                       !.pending = TRUE]]
  /\ UNCHANGED <<users, stats, scores, now, acked, arg, out>>

\* where get_or_create_user_stats returns to
AfterStats(w, row) ==
  IF req[w].op = "submit"
  THEN [req[w] EXCEPT !.pc = "update", !.orig = row, !.cur = row]
  ELSE Respond(w, 200)

\* get_or_create_user_stats: the SELECT (autoflush is off: nothing is written)
query_user_stats(w) ==
  /\ \/ req[w].pc = "query"
     \/ req[w].pc = "handler" /\ req[w].op = "stats"
  /\ req' = [req EXCEPT ![w] =
               IF stats[req[w].user] # NoRow
               THEN AfterStats(w, stats[req[w].user])
               ELSE [req[w] EXCEPT !.pc = "create"]]
  /\ UNCHANGED <<users, stats, scores, now, acked, arg, out>>

ScoreRow(w) ==
  [score |-> Payloads[req[w].p].score, sparks_earned |-> req[w].earned,
   time_taken |-> Payloads[req[w].p].time_taken]

\* what a commit of worker w's Session inserts into game_scores
FlushScores(w) ==
  IF req[w].pending
  THEN [scores EXCEPT ![req[w].user] = Append(@, ScoreRow(w))]
  ELSE scores

\* get_or_create_user_stats: db.add(stats); db.commit().  The commit writes
\* everything pending in the Session, the GameScore of the submission too.
\* user_id is unique: a row inserted meanwhile makes the INSERT fail.
create_user_stats(w) ==
  /\ req[w].pc = "create"
  /\ IF stats[req[w].user] # NoRow
     THEN /\ req' = [req EXCEPT ![w] = Fail(w)]
          /\ UNCHANGED <<stats, scores>>
     ELSE /\ stats' = [stats EXCEPT ![req[w].user] = NewStats]
          /\ scores' = FlushScores(w)
          /\ req' = [req EXCEPT ![w] = [req[w] EXCEPT !.pc = "refresh_stats",
                                                     !.pending = FALSE]]
  /\ UNCHANGED <<users, now, acked, arg, out>>

\* get_or_create_user_stats: db.refresh(stats)
refresh_user_stats(w) ==
  /\ req[w].pc = "refresh_stats"
  /\ req' = [req EXCEPT ![w] = AfterStats(w, stats[req[w].user])]
  /\ UNCHANGED <<users, stats, scores, now, acked, arg, out>>

\* mutant of apply_score: brain_level is not recomputed from the new sparks
apply_score_keeps_level(st, p, earned) ==
  LET pl == Payloads[p]
      s1 == [st EXCEPT !.sparks = @ + earned,
                       !.total_games_played = @ + 1,
                       !.total_time_trained = @ + pl.time_taken,
                       !.mind_rating = RatingOf[@, p]]
  IN  IF pl.best_streak # None /\ pl.best_streak # 0
         /\ pl.best_streak > s1.best_synapse_streak
      THEN [s1 EXCEPT !.best_synapse_streak = pl.best_streak]
      ELSE s1

\* submit_game_score, the assignments to stats before the streak update
apply_score(st, p, earned) ==
  LET pl == Payloads[p]
      s1 == [st EXCEPT !.sparks = @ + earned,
                       !.total_games_played = @ + 1,
                       !.total_time_trained = @ + pl.time_taken,
                       !.mind_rating = RatingOf[@, p]]
      s2 == IF pl.best_streak # None /\ pl.best_streak # 0
               /\ pl.best_streak > s1.best_synapse_streak
            THEN [s1 EXCEPT !.best_synapse_streak = pl.best_streak]
            ELSE s1
  IN  [s2 EXCEPT !.brain_level = calculate_brain_level(s2.sparks)]

\* mutant of streak_step: a broken streak (a gap of more than a day) is not
\* reset but counted on
streak_step_never_reset(st, today) ==
  IF st.last_activity_date # None
  THEN IF today - st.last_activity_date >= 1
       THEN [st EXCEPT !.synapse_streak = @ + 1]
       ELSE st
  ELSE [st EXCEPT !.synapse_streak = 1]

\* update_synapse_streak up to the best-streak update; today is the date read
streak_step(st, today) ==
  IF st.last_activity_date # None
  THEN LET days_diff == today - st.last_activity_date
       IN  IF days_diff = 1
           THEN [st EXCEPT !.synapse_streak = @ + 1]
           ELSE IF days_diff > 1
                THEN [st EXCEPT !.synapse_streak = 1]
                ELSE st
  ELSE [st EXCEPT !.synapse_streak = 1]

\* mutant of update_synapse_streak: the best streak follows the streak down
update_synapse_streak_overwrites_best(st, today) ==
  [streak_step(st, today) EXCEPT
     !.best_synapse_streak = streak_step(st, today).synapse_streak]

\* mutant of update_synapse_streak: the best streak is not updated
update_synapse_streak_keeps_best(st, today) == streak_step(st, today)

update_synapse_streak(st, today) ==
  LET s1 == streak_step(st, today)
  IN  IF s1.synapse_streak > s1.best_synapse_streak
      THEN [s1 EXCEPT !.best_synapse_streak = s1.synapse_streak]
      ELSE s1

\* submit_game_score from old_sparks to the call of update_synapse_streak,
\* and update_synapse_streak down to the best-streak update
update_stats(w) ==
  /\ req[w].pc = "update"
  /\ req' = [req EXCEPT ![w] = [req[w] EXCEPT
               !.pc = "stamp",
               !.today = now,
               !.cur = update_synapse_streak(
                         apply_score(req[w].cur, req[w].p, req[w].earned),
                         now)]]
  /\ UNCHANGED <<users, stats, scores, now, acked, arg, out>>

\* the UPDATE a flush emits: the columns the Session changed, and
\* last_activity_date, whose new timestamp always differs
Flush(row, orig, cur) ==
  [c \in StatsColumns |->
     IF c = "last_activity_date" \/ cur[c] # orig[c] THEN cur[c] ELSE row[c]]

\* update_synapse_streak: stats.last_activity_date = utcnow(); db.commit()
commit_streak(w) ==
  /\ req[w].pc = "stamp"
  /\ LET cur2 == [req[w].cur EXCEPT !.last_activity_date = now]
     IN  /\ stats' = [stats EXCEPT ![req[w].user] =
                        Flush(@, req[w].orig, cur2)]
         /\ req' = [req EXCEPT ![w] = [req[w] EXCEPT
                      !.pc = "final", !.cur = cur2, !.pending = FALSE]]
  /\ scores' = FlushScores(w)
  /\ UNCHANGED <<users, now, acked, arg, out>>

\* submit_game_score: the last db.commit() (nothing is pending) and
\* db.refresh(game_score); the score is returned
refresh_score(w) ==
  /\ req[w].pc = "final"
  /\ req' = [req EXCEPT ![w] = Respond(w, 200)]
  /\ acked' = [acked EXCEPT ![req[w].user] =
                 [games  |-> @.games + 1,
                  sparks |-> @.sparks + req[w].earned,
                  time   |-> @.time + Payloads[req[w].p].time_taken]]
  /\ UNCHANGED <<users, stats, scores, now, arg, out>>

\* a statement or commit of the Session raises (the storage fails)
DbCalls == {"query", "create", "refresh_stats", "stamp", "final"}

storage_error(w) ==
  /\ \/ req[w].pc \in DbCalls
     \/ req[w].pc = "handler" /\ req[w].op = "stats"
  /\ req' = [req EXCEPT ![w] = Fail(w)]
  /\ UNCHANGED <<users, stats, scores, now, acked, arg, out>>

\* delete_my_account.  The relationships stats and game_scores have no delete
\* cascade, so the flush first sets user_id of the user's rows to NULL; the
\* columns are nullable=False and the commit raises if there is such a row.
delete_my_account(w) ==
  /\ req[w].pc = "handler"
  /\ req[w].op = "delete"
  /\ LET u == req[w].user
     IN  IF u \in users /\ stats[u] = NoRow /\ scores[u] = <<>>
         THEN /\ users' = users \ {u}
              /\ req' = [req EXCEPT ![w] = Respond(w, 200)]
         ELSE /\ users' = users
              /\ req' = [req EXCEPT ![w] = Fail(w)]
  /\ UNCHANGED <<stats, scores, now, acked, arg, out>>

\* the orders in which ORDER BY mind_rating DESC may return the rows
Orders(rows) ==
  {f \in [1..Cardinality(rows) -> rows] :
     /\ \A i, j \in DOMAIN f : i # j => f[i] # f[j]
     /\ \A i, j \in DOMAIN f :
          i < j => stats[f[i]].mind_rating >= stats[f[j]].mind_rating}

Min(a, b) == IF a <= b THEN a ELSE b

\* mutant of Entries: the loop misses the first row
Entries_from_second(top) ==
  LET all == [i \in DOMAIN top |->
                [rank |-> i, username |-> top[i],
                 mind_rating |-> stats[top[i]].mind_rating,
                 brain_level |-> stats[top[i]].brain_level,
                 sparks |-> stats[top[i]].sparks]]
      HasUser(e) == e.username \in users /\ e.rank > 1
  IN  SelectSeq(all, HasUser)

\* the loop of get_leaderboard over top_stats
Entries(top) ==
  LET all == [i \in DOMAIN top |->
                [rank |-> i, username |-> top[i],
                 mind_rating |-> stats[top[i]].mind_rating,
                 brain_level |-> stats[top[i]].brain_level,
                 sparks |-> stats[top[i]].sparks]]
      HasUser(e) == e.username \in users
  IN  SelectSeq(all, HasUser)

\* get_leaderboard(limit)
get_leaderboard(w) ==
  /\ req[w].pc = "idle"
  /\ \E limit \in Limits :
       LET rows == {u \in UserIds : stats[u] # NoRow}
       IN  \E ord \in Orders(rows) :
             req' = [req EXCEPT ![w] = [Respond(w, 200) EXCEPT
                       !.op = "leaderboard", !.limit = limit,
                       !.nrows = Cardinality(rows),
                       !.body = Entries(SubSeq(ord, 1,
                                  Min(limit, Cardinality(rows))))]]
  /\ UNCHANGED <<users, stats, scores, now, acked, arg, out>>

\* the response is sent; the worker takes the next request
finish(w) ==
  /\ req[w].pc = "done"
  /\ req' = [req EXCEPT ![w] = IdleReq]
  /\ UNCHANGED <<users, stats, scores, now, acked, arg, out>>

Serve(w, cap) ==
  \/ register_user(w)
  \/ ReceiveSubmit(w, cap)
  \/ ReceiveGetStats(w)
  \/ ReceiveDelete(w)
  \/ submit_add_score(w)
  \/ query_user_stats(w)
  \/ create_user_stats(w)
  \/ refresh_user_stats(w)
  \/ update_stats(w)
  \/ commit_streak(w)
  \/ refresh_score(w)
  \/ storage_error(w)
  \/ delete_my_account(w)
  \/ get_leaderboard(w)
  \/ finish(w)

\* one process (uvicorn.run(app)): its event loop runs a handler, which never
\* awaits, from get_current_user to the response before it takes another
Next == Tick(MaxDay) \/ Serve(1, MaxScores)

Spec == Init /\ [][Next]_vars

\* the same app served by the processes Workers over the one SQLite file
\* (bounded more tightly: the interleavings multiply the states)
WorkersMaxScores == 2

WorkersMaxDay == 1

NextWorkers ==
  Tick(WorkersMaxDay) \/ \E w \in Workers : Serve(w, WorkersMaxScores)

SpecWorkers == Init /\ [][NextWorkers]_vars

(***************************************************************************)
(* The pure functions on their own: the input is drawn in the initial      *)
(* state and the call is the only step.                                    *)
(***************************************************************************)
MaxSparksArg == 1100

\* calculate_brain_level(arg), then calculate_brain_level(arg + 1)
brain_level_call ==
  /\ Len(out) < 2
  /\ out' = Append(out, calculate_brain_level(arg + Len(out)))
  /\ UNCHANGED <<users, stats, scores, now, req, acked, arg>>

InitLevel ==
  /\ users = {}
  /\ stats = [u \in UserIds |-> NoRow]
  /\ scores = [u \in UserIds |-> <<>>]
  /\ now = 0
  /\ req = [w \in Workers |-> IdleReq]
  /\ acked = [u \in UserIds |-> NoneAcked]
  /\ arg \in 0..MaxSparksArg
  /\ out = <<>>

SpecLevel == InitLevel /\ [][brain_level_call]_vars

\* calculate_brain_level step by step: out holds the locals of the call,
\* <<"loop", level, required, increment>>, and then <<"returned", value>>
InitLoop ==
  /\ users = {}
  /\ stats = [u \in UserIds |-> NoRow]
  /\ scores = [u \in UserIds |-> <<>>]
  /\ now = 0
  /\ req = [w \in Workers |-> IdleReq]
  /\ acked = [u \in UserIds |-> NoneAcked]
  /\ arg \in 0..MaxSparksArg
  /\ out = <<"loop", 1, 0, 100>>

\* mutant of brain_level_body: the increment is not raised
brain_level_body_flat ==
  /\ out[1] = "loop"
  /\ arg >= out[3]
  /\ out' = <<"loop", out[2] + 1, out[3] + out[4], out[4]>>
  /\ UNCHANGED <<users, stats, scores, now, req, acked, arg>>

\* while sparks >= required: level += 1; required += increment;
\* increment += 50
brain_level_body ==
  /\ out[1] = "loop"
  /\ arg >= out[3]
  /\ out' = <<"loop", out[2] + 1, out[3] + out[4], out[4] + 50>>
  /\ UNCHANGED <<users, stats, scores, now, req, acked, arg>>

\* the loop's exit: return level - 1
brain_level_return ==
  /\ out[1] = "loop"
  /\ arg < out[3]
  /\ out' = <<"returned", out[2] - 1>>
  /\ UNCHANGED <<users, stats, scores, now, req, acked, arg>>

NextLoop == brain_level_body \/ brain_level_return

\* a call that has started keeps running
SpecLoop == InitLoop /\ [][NextLoop]_vars /\ WF_vars(NextLoop)

\* the request bodies of the calculate_sparks check
SparkScores == {-100, -1, 0, 57, 99, 100, 109, 154, 203, 1000}

SparkDifficulties == {"easy", "medium", "hard", "expert", "legendary", ""}

SparkAccuracies ==
  {Float(-1000), Float(-400), Float(-201), Float(-135), Float(0), Float(50),
   Float(90), Float(100), Float(360), NaN}

\* calculate_sparks(arg.score, arg.difficulty, arg.accuracy)
sparks_call ==
  /\ out = <<>>
  /\ out' = IF SparksRaises(arg.score, arg.difficulty, arg.accuracy)
            THEN <<"raised", 0>>
            ELSE <<"returned",
                   calculate_sparks(arg.score, arg.difficulty, arg.accuracy)>>
  /\ UNCHANGED <<users, stats, scores, now, req, acked, arg>>

InitSparks ==
  /\ users = {}
  /\ stats = [u \in UserIds |-> NoRow]
  /\ scores = [u \in UserIds |-> <<>>]
  /\ now = 0
  /\ req = [w \in Workers |-> IdleReq]
  /\ acked = [u \in UserIds |-> NoneAcked]
  /\ arg \in [score : SparkScores, difficulty : SparkDifficulties,
              accuracy : SparkAccuracies]
  /\ out = <<>>

SpecSparks == InitSparks /\ [][sparks_call]_vars

(***************************************************************************)
(* The claims.                                                             *)
(***************************************************************************)
\* worker w has answered a request of kind op with status code
Answered(w, op, code) ==
  req[w].pc = "done" /\ req[w].op = op /\ req[w].status = code

\* C1: a submission answered 500 leaves total_games_played, sparks and the
\* number of GameScore rows of its user as they were when it began.
\* (The code commits inside get_or_create_user_stats and inside
\* update_synapse_streak, so this fails.)
C1_FailedSubmissionLeavesNoTrace ==
  \A w \in Workers :
    Answered(w, "submit", 500) =>
      /\ Persisted(req[w].user).games = req[w].pre.games
      /\ Persisted(req[w].user).sparks = req[w].pre.sparks
      /\ Persisted(req[w].user).rows = req[w].pre.rows

\* C2: once the concurrent submissions of a user have all been answered 200
\* (every stored GameScore row of the user belongs to an answered submission
\* and none is in flight), sparks, total_games_played and total_time_trained
\* are the sums over those submissions: no update is lost.
\* (Each Session writes absolute values computed from the row it read, so
\* this fails when two submissions overlap.)
C2_NoLostUpdate ==
  \A u \in UserIds :
    (/\ \A w \in Workers : ~(req[w].op = "submit" /\ req[w].user = u)
     /\ acked[u].games = Len(scores[u])
     /\ acked[u].games > 0)
    => /\ stats[u].sparks = acked[u].sparks
       /\ stats[u].total_games_played = acked[u].games
       /\ stats[u].total_time_trained = acked[u].time

\* C3: calculate_brain_level is 1 on [0,100), 2 on [100,300), 3 on [300,600),
\* 4 on [600,1000) and 5 at 1000, and does not decrease from sparks to
\* sparks + 1.  (The loop's thresholds are 0, 100, 250, 450, 700, 1000: this
\* fails from sparks = 250 on.)
C3_BrainLevelTable ==
  /\ Len(out) >= 1 =>
       /\ (0 <= arg /\ arg < 100) => out[1] = 1
       /\ (100 <= arg /\ arg < 300) => out[1] = 2
       /\ (300 <= arg /\ arg < 600) => out[1] = 3
       /\ (600 <= arg /\ arg < 1000) => out[1] = 4
       /\ arg = 1000 => out[1] = 5
  /\ Len(out) = 2 => out[1] <= out[2]

\* the streak the claim gives for the stored streak and last activity date
\* and today's date
ClaimedStreak(streak, last, today) ==
  CASE last = None      -> 1
    [] today - last = 1 -> streak + 1
    [] today - last > 1 -> 1
    [] today - last = 0 -> streak

\* C4: a submission answered 200 leaves synapse_streak at 1 if there was no
\* activity before, one higher if the stored last_activity_date is the day
\* before today, at 1 if it is older, and unchanged if it is today.
C4_StreakFollowsDayGap ==
  \A w \in Workers :
    Answered(w, "submit", 200) =>
      stats[req[w].user].synapse_streak =
        ClaimedStreak(req[w].pre.streak, req[w].pre.last, req[w].today)

\* C4 witness: the third submission of D, D+1, D+3: the streak was 2, the
\* last activity two days ago, and the streak is 1 again
C4_Witness ==
  \E w \in Workers :
    /\ Answered(w, "submit", 200)
    /\ req[w].pre.streak = 2
    /\ req[w].today - req[w].pre.last = 2
    /\ stats[req[w].user].synapse_streak = 1

\* C5: no step lowers the stored best_synapse_streak of a user.
C5_BestStreakNeverDecreases ==
  [][\A u \in UserIds :
       (stats[u] # NoRow /\ stats'[u] # NoRow) =>
         stats'[u].best_synapse_streak >= stats[u].best_synapse_streak]_vars

\* C5 witness: a submission answered 200 that left the streak below a best
\* streak a client had reported before
C5_Witness ==
  \E w \in Workers :
    /\ Answered(w, "submit", 200)
    /\ req[w].pre.best = 3
    /\ stats[req[w].user].synapse_streak < req[w].pre.streak
    /\ stats[req[w].user].best_synapse_streak = 3

\* C6: a leaderboard response has at most limit entries, in descending order
\* of mind_rating, ranked 1, 2, ... without gaps.  (The rank is the position
\* among the rows of user_stats, and rows whose user is gone are skipped
\* after the rank is taken: this fails once such a row exists.)
C6_LeaderboardRanks ==
  \A w \in Workers :
    Answered(w, "leaderboard", 200) =>
      /\ Len(req[w].body) <= req[w].limit
      /\ \A i, j \in DOMAIN req[w].body :
           i < j => req[w].body[i].mind_rating >= req[w].body[j].mind_rating
      /\ \A i \in DOMAIN req[w].body : req[w].body[i].rank = i

\* C7: every stored UserStats row has best_synapse_streak >= synapse_streak.
C7_BestAtLeastStreak ==
  \A u \in UserIds :
    stats[u] # NoRow =>
      stats[u].best_synapse_streak >= stats[u].synapse_streak

\* C7 witness: a stored streak of two days that is the best streak
C7_Witness ==
  \E u \in UserIds :
    /\ stats[u] # NoRow
    /\ stats[u].synapse_streak = 2
    /\ stats[u].best_synapse_streak = 2

\* C8: a submission answered 200 with a (non-negative) score S leaves
\* mind_rating = floor(0.7 * previous mind_rating + 0.3 * S).  (The code
\* evaluates the expression in binary floating point, whose sum can fall
\* just below the exact integer value: this fails.)
C8_MindRatingIsFloor ==
  \A w \in Workers :
    Answered(w, "submit", 200) =>
      stats[req[w].user].mind_rating =
        (7 * req[w].pre.rating + 3 * Payloads[req[w].p].score) \div 10

\* C9: whenever calculate_sparks returns, it returns at least 10.
C9_SparksAtLeastTen ==
  (out # <<>> /\ out[1] = "returned") => out[2] >= 10

\* C9 witness: a call whose product is negative (accuracy -400 gives the
\* bonus -1.0) and which returns the minimum
C9_Witness ==
  /\ out # <<>>
  /\ out[1] = "returned"
  /\ arg.score = 1000
  /\ arg.accuracy = Float(-400)
  /\ out[2] = 10

\* the users that own a row of user_stats
Ranked == {u \in users : stats[u] # NoRow}

\* C10 as stated: with fewer than limit rows of user_stats the leaderboard is
\* empty.
C10_EmptyBelowLimit ==
  \A w \in Workers :
    (Answered(w, "leaderboard", 200) /\ req[w].nrows < req[w].limit) =>
      req[w].body = <<>>

\* C10 as amended: with fewer than limit rows of user_stats the leaderboard
\* has one entry for each row whose user exists, and is empty only if there
\* is none.
C10_AllRowsBelowLimit ==
  \A w \in Workers :
    (Answered(w, "leaderboard", 200) /\ req[w].nrows < req[w].limit) =>
      /\ Len(req[w].body) = Cardinality(Ranked)
      /\ {req[w].body[i].username : i \in DOMAIN req[w].body} = Ranked

\* C10 witness: a leaderboard of limit 2 over a single row
C10_Witness ==
  \E w \in Workers :
    /\ Answered(w, "leaderboard", 200)
    /\ req[w].limit = 2
    /\ req[w].nrows = 1
    /\ Len(req[w].body) = 1

\* C11: every stored UserStats row has brain_level >= 1 and
\* brain_level = calculate_brain_level(sparks), from the row's creation on
\* and at every commit inside a submission.
C11_BrainLevelFollowsSparks ==
  \A u \in UserIds :
    stats[u] # NoRow =>
      /\ stats[u].brain_level >= 1
      /\ stats[u].brain_level = calculate_brain_level(stats[u].sparks)

\* C11 witness: a stored row whose sparks have carried it past level 2
C11_Witness ==
  \E u \in UserIds :
    /\ stats[u] # NoRow
    /\ stats[u].sparks >= 250
    /\ stats[u].brain_level >= 3

\* the closed form of the sparks required for level n
threshold(n) == 100 * (n - 1) + (50 * (n - 1) * (n - 2)) \div 2

RECURSIVE SumEarned(_)
SumEarned(rows) ==
  IF rows = <<>> THEN 0 ELSE Head(rows).sparks_earned + SumEarned(Tail(rows))

\* C13: in every stored state a user's UserStats agrees with the user's
\* GameScore rows: total_games_played is their number and sparks the sum of
\* their sparks_earned.  (The commit inside get_or_create_user_stats stores
\* the score row of a first submission together with the new, empty stats
\* row: this fails there, and stays so if the submission then fails.)
C13_StatsAgreeWithHistory ==
  \A u \in UserIds :
    stats[u] # NoRow =>
      /\ stats[u].total_games_played = Len(scores[u])
      /\ stats[u].sparks = SumEarned(scores[u])

====
